---------------------------- MODULE Spec2Model ----------------------------
(***************************************************************************)
(* ExamDataManager: the fee reconciliation pipeline                        *)
(*   app/services/fee_service.py   supplement_fee_info, _full_fee          *)
(*   app/utils/openai_client.py    get_fees_batch                          *)
(*   app/utils/excel.py            _write_excel_in_thread (row highlights) *)
(*   app/api/endpoints/excel.py    the task table and its four endpoints   *)
(*                                                                         *)
(* Spec and FeeSpec run ONE background task through the whole pipeline in  *)
(* detail; they share Next and differ in the inputs Init draws.  TaskSpec  *)
(* runs several tasks of both upload endpoints against polls and downloads,*)
(* with the pipeline's phases reduced to their outcome (returns / raises). *)
(***************************************************************************)
EXTENDS Integers, Sequences, FiniteSets, TLC

(***************************************************************************)
(* Bounds of the model.                                                    *)
(***************************************************************************)
\* longest input sheet under Spec (names vary widely, amounts little)
MaxRecords == 3
\* longest input sheet under FeeSpec (amounts vary widely, names little)
MaxFeeRecords == 3
\* uploads (task ids) under TaskSpec
MaxTasks == 2
\* the source sets batch_size = 30 (openai_client.py:68); the model scales
\* it down so that a handful of unique requests already spans two batches
batch_size == 2

(***************************************************************************)
(* Python values.  Every value is a pair <<type, payload>>:                *)
(*   int / float   a number (payload: its value)                           *)
(*   nan           float('nan')                                            *)
(*   none          None, also the result of dict.get on an absent key      *)
(*   blank         a str that is empty or holds only spaces                *)
(*   str           any other str (payload: which text)                     *)
(***************************************************************************)
PyInt(n)   == <<"int", n>>
PyFloat(n) == <<"float", n>>
PyStr(n)   == <<"str", n>>
PyNaN      == <<"nan", 0>>
PyNone     == <<"none", 0>>
PyBlank    == <<"blank", 0>>

IsNumber(v) == v[1] \in {"int", "float"}

\* math.isnan(v): defined on real numbers only; TypeError on None and on str
IsNanRaises(v) == v[1] \in {"none", "blank", "str"}
IsNan(v)       == v[1] = "nan"

\* float(v) for a number: an int becomes the float of the same value
ToFloat(v) == IF v[1] = "int" THEN PyFloat(v[2]) ELSE v

\* str(v): the text of a value.  The int 8 and the str "8" have the same
\* text; a float prints with its fraction ("8.0"), so it differs from both.
StrOf(v) == CASE v[1] = "int"   -> <<"text", v[2]>>
              [] v[1] = "str"   -> <<"text", v[2]>>
              [] v[1] = "float" -> <<"text.0", v[2]>>
              [] v[1] = "blank" -> <<"", 0>>
              [] OTHER          -> <<v[1], 0>>

\* str(fee).replace(" ", "") != ""
NonBlankText(v) == v[1] # "blank"

Range(s) == {s[i] : i \in 1..Len(s)}

RECURSIVE Flatten(_)
Flatten(ss) == IF ss = <<>> THEN <<>> ELSE Head(ss) \o Flatten(Tail(ss))

(***************************************************************************)
(* Names are sequences of characters, so that removing spaces is a real    *)
(* operation.                                                              *)
(***************************************************************************)
NameZ  == <<"z">>          \* one directory profile
NameL  == <<"l">>          \* two directory profiles
NameW  == <<"w">>          \* no directory profile
NameLs == <<"l", " ">>     \* "l " : NameL followed by a space

\* str(fee['姓名']).replace(" ", "")
StripSpaces(name) == SelectSeq(name, LAMBDA c : c # " ")

(***************************************************************************)
(* The personnel directory (the Mongo collection): a sequence of profiles. *)
(***************************************************************************)
Profile(p, name) ==
    [name |-> name, id_card |-> PyStr(10 + p), bank_card |-> PyStr(20 + p),
     phone |-> PyStr(30 + p), bank_name |-> PyStr(40 + p)]

\* the empty dict {} handed to _full_fee for an unmatched record
NoProfile ==
    [name |-> <<>>, id_card |-> PyNone, bank_card |-> PyNone,
     phone |-> PyNone, bank_name |-> PyNone]

FirstDirectory ==
    << Profile(1, NameZ), Profile(2, NameL), Profile(3, NameL) >>

Directories ==
    { FirstDirectory,
      << Profile(2, NameL), Profile(1, NameZ), Profile(3, NameL),
         Profile(4, NameL) >> }

(***************************************************************************)
(* Fee records: the dicts read from the sheet.  keys is the set of keys    *)
(* the dict holds; the value of an absent key is PyNone (dict.get).  row   *)
(* is the record's 编号 column: its row in the input sheet.                *)
(***************************************************************************)
FeeRecord(row, nm, am) ==
    [row |-> row,
     keys |-> nm.keys \cup am.keys,
     name |-> nm.name,
     amount |-> am.amount, hours |-> am.hours, standard |-> am.standard,
     id_card |-> PyNone, bank_card |-> PyNone, phone |-> PyNone,
     bank_name |-> PyNone]

NamePart(name) == [keys |-> {"name"}, name |-> name]
NoNamePart     == [keys |-> {}, name |-> <<>>]

AmountPart(ks, am, h, s) ==
    [keys |-> ks, amount |-> am, hours |-> h, standard |-> s]

\* a record that carries a valid amount (and its hours and rate)
HasAmount  == AmountPart({"amount", "hours", "standard"},
                         PyInt(100), PyInt(8), PyStr(1))
\* records whose amount cell is empty (pandas: NaN), by their request
Request(h, s) == AmountPart({"amount", "hours", "standard"}, PyNaN, h, s)
\* an empty amount and no hours column
NoHours    == AmountPart({"amount", "standard"}, PyNaN, PyNone, PyStr(1))
\* no amount key at all
NoAmount   == AmountPart({"hours", "standard"}, PyNone, PyInt(8), PyStr(1))
\* neither an amount key nor an hours key
NoAmountNoHours == AmountPart({"standard"}, PyNone, PyNone, PyStr(1))

AllNameParts == {NoNamePart, NamePart(<<>>), NamePart(NameZ), NamePart(NameL),
                 NamePart(NameW), NamePart(NameLs)}
FewNameParts == {NoNamePart, NamePart(NameZ)}

FewAmountParts == {NoAmount, Request(PyInt(8), PyStr(1))}
AllAmountParts == {HasAmount, NoHours, NoAmount, NoAmountNoHours,
                   Request(PyInt(8), PyStr(1)), Request(PyStr(8), PyStr(1)),
                   Request(PyStr(9), PyStr(1)), Request(PyStr(9), PyStr(2))}

\* every sheet of at most n records over the given name and amount parts
Sheets(n, nameParts, amountParts) ==
    UNION { { [i \in 1..k |-> FeeRecord(i, f[i][1], f[i][2])] :
              f \in [1..k -> nameParts \X amountParts] } : k \in 0..n }


(***************************************************************************)
(* State.                                                                  *)
(***************************************************************************)
VARIABLES
    \* ---- the run of one background task (Spec, FeeSpec) ----
    pc,                 \* where process_excel_file_background stands
    tasks_progress,     \* excel.py:17, task id -> progress entry
    contents,           \* the uploaded file: "unreadable" or its sheet
    collection,         \* "none" | "ok" | "unreachable"
    directory,          \* the profiles the collection holds
    data_dict_list,     \* what read_excel_to_dict_list_async returned
    record_faults,      \* the exceptions raised inside the matching loop
                        \* (FaultSpec; none in the other specifications)
    raised,             \* the exception the run raised, "" when none
    fee_result, repeat_list, no_match_list, index, invalid_count,
    indices_map,
    \* get_fees_batch
    original_fees, to_calculate, positions, unique_calculations,
    unique_results, oracle_calls, calculated_fees,
    \* _write_excel_in_thread
    sheet_rows, fills,
    \* ---- the task table under concurrent requests (TaskSpec) ----
    handler,            \* task id -> where its upload handler / worker stands
    cleanup,            \* task ids whose clean-up background task is queued
    responses           \* the last answer given to a poll / download

runVars  == <<pc, contents, collection, directory, record_faults,
              data_dict_list, raised,
              fee_result, repeat_list, no_match_list, index, invalid_count,
              indices_map,
              original_fees, to_calculate, positions, unique_calculations,
              unique_results, oracle_calls, calculated_fees,
              sheet_rows, fills>>
feeVars  == <<original_fees, to_calculate, positions, unique_calculations,
              unique_results, oracle_calls, calculated_fees>>
matchVars == <<fee_result, repeat_list, no_match_list, index, invalid_count,
               indices_map>>
inputVars == <<contents, collection, directory, record_faults>>
tableVars == <<handler, cleanup, responses>>
vars     == <<runVars, tasks_progress, tableVars>>

\* the task id of the run that Spec and FeeSpec follow
RunId == 0

(***************************************************************************)
(* Progress entries: the dicts stored in tasks_progress.  keys names the   *)
(* optional keys ("result", "filename", "error") the dict holds.           *)
(***************************************************************************)
Entry(st, pr, ks) == [status |-> st, progress |-> pr, keys |-> ks]

(***************************************************************************)
(* fee_service.py                                                          *)
(***************************************************************************)
\* _full_fee: the record with the profile's contact and banking fields; the
\* profile's name when it has one, else the record's own
_full_fee(fee, user_info) ==
    [fee EXCEPT !.id_card   = user_info.id_card,
                !.bank_card = user_info.bank_card,
                !.phone     = user_info.phone,
                !.bank_name = user_info.bank_name,
                !.name      = IF user_info.name # <<>> THEN user_info.name
                              ELSE fee.name,
                !.keys      = @ \cup {"id_card", "bank_card", "phone",
                                      "bank_name", "name"}]

\* lines 67-71: '姓名' not in fee or not fee['姓名']
LacksName(fee) == "name" \notin fee.keys \/ fee.name = <<>>

valid_fee_info(fee_info) == SelectSeq(fee_info, LAMBDA fee : ~LacksName(fee))

\* lines 81, 84: collection.find({"name": {"$in": names}}), the names as the
\* sheet spells them
FindUsers(dir, fee_info) ==
    LET names == {fee.name : fee \in Range(valid_fee_info(fee_info))}
    IN  SelectSeq(dir, LAMBDA user : user.name \in names)

\* lines 85-88, 99-100: users_dict.get(name, []) for the record's name with
\* its spaces removed
UsersOf(found, fee) ==
    SelectSeq(found, LAMBDA user : user.name = StripSpaces(fee.name))

\* line 62: index = 1
InitialIndex == 1

\* FanOut appending the profiles' records last profile first
RECURSIVE FanOut_LastFirst(_, _, _)
FanOut_LastFirst(fee, users, idx) ==
    IF users = <<>> THEN [fees |-> <<>>, positions |-> <<>>]
    ELSE LET rest == FanOut_LastFirst(fee, Tail(users), idx + 1)
         IN  [fees      |-> rest.fees \o <<_full_fee(fee, Head(users))>>,
              positions |-> <<idx + 1>> \o rest.positions]

\* lines 104-110: the fan-out of one record over its profiles
RECURSIVE FanOut(_, _, _)
FanOut(fee, users, idx) ==
    IF users = <<>> THEN [fees |-> <<>>, positions |-> <<>>]
    ELSE LET rest == FanOut(fee, Tail(users), idx + 1)
         IN  [fees      |-> <<_full_fee(fee, Head(users))>> \o rest.fees,
              positions |-> <<idx + 1>> \o rest.positions]

\* lines 109, 117, 123: indices_map.append(len(fee_result)), k times from a
\* fee_result of length n
IndicesFrom(n, k) == [j \in 1..k |-> n + j - 1]

\* lines 97-126: one pass of the loop body over record fee, from the state m
\* = [fee_result, repeat_list, no_match_list, index, indices_map].  temp_fees
\* receives the same dicts as fee_result, in the same order.
MatchOne(m, fee, found) ==
    LET users == UsersOf(found, fee)
        n     == Len(m.fee_result)
    IN
    IF Len(users) > 1 THEN
        LET fan == FanOut(fee, users, m.index)
        IN  [m EXCEPT !.fee_result  = @ \o fan.fees,
                      !.repeat_list = Append(@, fan.positions),
                      !.index       = @ + Len(users),
                      !.indices_map = @ \o IndicesFrom(n, Len(users))]
    ELSE IF Len(users) = 1 THEN
        [m EXCEPT !.fee_result  = Append(@, _full_fee(fee, users[1])),
                  !.index       = @ + 1,
                  !.indices_map = @ \o IndicesFrom(n, 1)]
    ELSE
        [m EXCEPT !.fee_result    = Append(@, _full_fee(fee, NoProfile)),
                  !.index         = @ + 1,
                  !.no_match_list = Append(@, m.index + 1),
                  !.indices_map   = @ \o IndicesFrom(n, 1)]

RECURSIVE MatchLoop(_, _, _)
MatchLoop(m, fees, found) ==
    IF fees = <<>> THEN m
    ELSE MatchLoop(MatchOne(m, Head(fees), found), Tail(fees), found)

\* lines 59-62, 94-95
NoMatch == [fee_result |-> <<>>, repeat_list |-> <<>>, no_match_list |-> <<>>,
            index |-> InitialIndex, indices_map |-> <<>>]

(***************************************************************************)
(* openai_client.py: get_fees_batch                                        *)
(***************************************************************************)
\* data.get('金额')
AmountOf(data) == IF "amount" \in data.keys THEN data.amount ELSE PyNone

\* lines 48-50: the request of a record and its key, the pair of texts
CalData(data) == <<data.hours, data.standard>>
CalKey(cal_data) == <<StrOf(cal_data[1]), StrOf(cal_data[2])>>

\* PartitionOne without the test of lines 38-45 for an amount that is there
PartitionOne_NoAmountTest(g, i, data) ==
    LET fee == AmountOf(data) IN
    IF g.raises THEN g
    ELSE IF NonBlankText(fee) /\ IsNanRaises(fee) THEN
        [g EXCEPT !.raises = TRUE]
    ELSE IF "hours" \notin data.keys \/ "standard" \notin data.keys THEN
        [g EXCEPT !.original_fees = Append(@, PyNaN)]
    ELSE
        [g EXCEPT !.original_fees = Append(@, PyNone),
                  !.to_calculate  = Append(@, <<CalKey(CalData(data)),
                                                CalData(data)>>),
                  !.positions     = Append(@, i)]

\* lines 38-53: one pass of the partition loop over data, the record at
\* (zero-based) position i; g.raises once math.isnan has raised TypeError
PartitionOne(g, i, data) ==
    LET fee == AmountOf(data) IN
    IF g.raises THEN g
    ELSE IF NonBlankText(fee) /\ IsNanRaises(fee) THEN
        [g EXCEPT !.raises = TRUE]
    ELSE IF NonBlankText(fee) /\ ~IsNan(fee) THEN
        [g EXCEPT !.original_fees = Append(@, ToFloat(fee))]
    ELSE IF "hours" \notin data.keys \/ "standard" \notin data.keys THEN
        [g EXCEPT !.original_fees = Append(@, PyNaN)]
    ELSE
        [g EXCEPT !.original_fees = Append(@, PyNone),
                  !.to_calculate  = Append(@, <<CalKey(CalData(data)),
                                                CalData(data)>>),
                  !.positions     = Append(@, i)]

RECURSIVE PartitionLoop(_, _, _)
PartitionLoop(g, i, data_list) ==
    IF i >= Len(data_list) THEN g
    ELSE PartitionLoop(PartitionOne(g, i, data_list[i + 1]), i + 1, data_list)

Partition(data_list) ==
    PartitionLoop([raises |-> FALSE, original_fees |-> <<>>,
                   to_calculate |-> <<>>, positions |-> <<>>], 0, data_list)

\* lines 59-65: the requests whose key was not seen before, in first-seen
\* order
RECURSIVE UniqueLoop(_, _, _)
UniqueLoop(todo, seen, acc) ==
    IF todo = <<>> THEN acc
    ELSE LET cal_key  == Head(todo)[1]
             cal_data == Head(todo)[2]
         IN  IF cal_key \in seen
             THEN UniqueLoop(Tail(todo), seen, acc)
             ELSE UniqueLoop(Tail(todo), seen \cup {cal_key},
                             Append(acc, cal_data))

Unique(todo) == UniqueLoop(todo, {}, <<>>)

\* BatchAt with every slice starting one request early: the batches overlap
BatchAt_Overlapping(uniq, done) ==
    SubSeq(uniq, IF done = 0 THEN 1 ELSE done * batch_size,
           IF (done + 1) * batch_size < Len(uniq)
           THEN (done + 1) * batch_size ELSE Len(uniq))

\* line 72: unique_calculations[i:i + batch_size], the batch after `done`
\* batches
BatchAt(uniq, done) ==
    SubSeq(uniq, done * batch_size + 1,
           IF (done + 1) * batch_size < Len(uniq)
           THEN (done + 1) * batch_size ELSE Len(uniq))

\* line 71: range(0, len(unique_calculations), batch_size)
BatchCount(uniq) == (Len(uniq) + batch_size - 1) \div batch_size

(***************************************************************************)
(* The oracle's answer to one batch.                                       *)
(*   raises       client.chat.completions.create raises                    *)
(*   undecodable  eval(result_str) raises                                  *)
(*   not_list     eval gives something that is no list                     *)
(*   list         eval gives the list items (of any length)                *)
(***************************************************************************)
OracleItems == {PyInt(7), PyNone, PyStr(7)}

Repeat(v, n) == [j \in 1..n |-> v]

Responses(n) ==
    { [kind |-> k, items |-> <<>>] : k \in {"raises", "undecodable", "not_list"} }
    \cup { [kind |-> "list", items |-> Repeat(PyInt(7), k)] :
           k \in {n - 1, n + 1} }
    \cup { [kind |-> "list", items |-> its] : its \in [1..n -> OracleItems] }

\* BatchResults without the length test of lines 95-102
BatchResults_NoLengthTest(batch, resp) ==
    IF resp.kind = "raises" THEN Repeat(PyNaN, Len(batch))
    ELSE IF resp.kind # "list" THEN Repeat(PyNaN, Len(batch))
    ELSE resp.items

\* lines 78-108: the results the batch's requests are given for a response
BatchResults(batch, resp) ==
    IF resp.kind = "raises" THEN Repeat(PyNaN, Len(batch))
    ELSE IF resp.kind # "list" THEN Repeat(PyNaN, Len(batch))
    ELSE IF Len(resp.items) # Len(batch) THEN Repeat(PyNaN, Len(batch))
    ELSE resp.items

\* lines 100-102, 106-108: unique_results[cal_key] = result over the batch
RECURSIVE StoreResults(_, _, _)
StoreResults(cache, batch, results) ==
    IF batch = <<>> \/ results = <<>> THEN cache
    ELSE StoreResults(
            [k \in DOMAIN cache \cup {CalKey(Head(batch))} |->
                IF k = CalKey(Head(batch)) THEN Head(results) ELSE cache[k]],
            Tail(batch), Tail(results))

\* line 113: unique_results.get(cal_key, math.nan)
CacheGet(cache, cal_key) ==
    IF cal_key \in DOMAIN cache THEN cache[cal_key] ELSE PyNaN

\* Project with result[j] in place of result[pos]: the j-th cached result
\* goes to the j-th record
Project_ByCount(orig, pos, todo, cache) ==
    [i \in 1..Len(orig) |->
        IF i <= Len(pos) THEN CacheGet(cache, todo[i][1]) ELSE orig[i]]

\* lines 111-113: the cached results put at the positions that asked
Project(orig, pos, todo, cache) ==
    [i \in 1..Len(orig) |->
        IF \E j \in 1..Len(pos) : pos[j] = i - 1
        THEN LET j == CHOOSE j \in 1..Len(pos) : pos[j] = i - 1
             IN  CacheGet(cache, todo[j][1])
        ELSE orig[i]]

(***************************************************************************)
(* fee_service.py, lines 143-146: the amounts written back.  The loop      *)
(* stops at the first result on which math.isnan raises (line 149 catches  *)
(* it); what was written before stays written.                             *)
(***************************************************************************)
IsFailure(fee) == fee = PyNone \/ IsNan(fee)

RECURSIVE UpdateLoop(_, _, _, _)
UpdateLoop(result, imap, fees, i) ==
    IF i > Len(fees) THEN result
    ELSE IF fees[i] = PyNone THEN UpdateLoop(result, imap, fees, i + 1)
    ELSE IF IsNanRaises(fees[i]) THEN result
    ELSE IF IsNan(fees[i]) THEN UpdateLoop(result, imap, fees, i + 1)
    ELSE UpdateLoop(
            [result EXCEPT ![imap[i] + 1].amount = fees[i],
                           ![imap[i] + 1].keys   = @ \cup {"amount"}],
            imap, fees, i + 1)

(***************************************************************************)
(* excel.py, lines 189-216: the fills.  Row r of the sheet holds output    *)
(* record r - 2 (row 1 is the header); a fill replaces the row's fill.     *)
(***************************************************************************)
\* lines 197, 211: row_idx = idx_num + 2
RowOf(idx) == idx + 2

FillRows(f, idxs, colour) ==
    LET rows == {RowOf(idx) : idx \in idxs}
    IN  [r \in DOMAIN f \cup rows |-> IF r \in rows THEN colour ELSE f[r]]

Highlight(records, groups, unmatched) ==
    IF records = <<>> THEN <<>>    \* no columns: range(1, 1) fills nothing
    ELSE FillRows(FillRows(<<>>, Range(Flatten(groups)), "red"),
                  Range(unmatched), "yellow")

(***************************************************************************)
(* The run of one background task: process_excel_file_background, with     *)
(* supplement_fee_info, get_fees_batch and the writer it calls.            *)
(*   pc: "pending" -> "read" -> "supplement" -> "fees" -> "batch" ->       *)
(*       "update" -> "write" -> "done"                                     *)
(***************************************************************************)
SetProgress(entry) == tasks_progress' = [tasks_progress EXCEPT ![RunId] = entry]

\* excel.py:274-285: any exception ends the task in error
RunFails(exc) ==
    /\ raised' = exc
    /\ SetProgress(Entry("error", 0, {"error"}))
    /\ pc' = "done"

\* excel.py:260-261: supplement_fee_info returned
RunReturns ==
    /\ SetProgress(Entry("writing", 70, {}))
    /\ pc' = "write"

\* excel.py:237-239
Begin ==
    /\ pc = "pending"
    /\ SetProgress(Entry("reading", 10, {}))
    /\ pc' = "read"
    /\ UNCHANGED <<inputVars, data_dict_list, raised, matchVars, feeVars,
                   sheet_rows, fills, tableVars>>

\* excel.py:242: the reader raises (no such sheet, not a workbook)
ReadRaises ==
    /\ pc = "read"
    /\ RunFails("Exception")
    /\ UNCHANGED <<inputVars, data_dict_list, matchVars, feeVars,
                   sheet_rows, fills, tableVars>>

\* excel.py:242-250: the sheet holds no record
ReadEmpty ==
    /\ pc = "read"
    /\ contents = <<>>
    /\ data_dict_list' = contents
    /\ SetProgress(Entry("error", 0, {"error"}))
    /\ pc' = "done"
    /\ UNCHANGED <<inputVars, raised, matchVars, feeVars, sheet_rows, fills,
                   tableVars>>

\* excel.py:242-253
ReadRecords ==
    /\ pc = "read"
    /\ contents # <<>>
    /\ data_dict_list' = contents
    /\ SetProgress(Entry("processing", 40, {}))
    /\ pc' = "supplement"
    /\ UNCHANGED <<inputVars, raised, matchVars, feeVars, sheet_rows, fills,
                   tableVars>>

\* fee_service.py:54-57: no collection object; the input is handed back
SupplementNoCollection ==
    /\ pc = "supplement"
    /\ collection' = "none"
    /\ fee_result' = data_dict_list
    /\ repeat_list' = <<>>
    /\ no_match_list' = <<>>
    /\ RunReturns
    /\ UNCHANGED <<contents, directory, record_faults, data_dict_list, raised,
                   index, invalid_count, indices_map, feeVars, sheet_rows,
                   fills, tableVars>>

\* fee_service.py:64-78: every record lacks a name
SupplementNoValid ==
    /\ pc = "supplement"
    /\ collection' \in {"ok", "unreachable"}
    /\ valid_fee_info(data_dict_list) = <<>>
    /\ invalid_count' = Len(data_dict_list)
    /\ RunFails("BadRequestException")
    /\ UNCHANGED <<contents, directory, record_faults, data_dict_list,
                   fee_result, repeat_list, no_match_list, index, indices_map,
                   feeVars, sheet_rows, fills, tableVars>>

\* fee_service.py:83-92: the query raises
SupplementFindRaises ==
    /\ pc = "supplement"
    /\ collection' = "unreachable"
    /\ valid_fee_info(data_dict_list) # <<>>
    /\ invalid_count' = Len(data_dict_list) - Len(valid_fee_info(data_dict_list))
    /\ RunFails("InternalServerException")
    /\ UNCHANGED <<contents, directory, record_faults, data_dict_list,
                   fee_result, repeat_list, no_match_list, index, indices_map,
                   feeVars, sheet_rows, fills, tableVars>>

\* fee_service.py:59-135: the records are matched against the directory
SupplementMatch ==
    /\ pc = "supplement"
    /\ collection' = "ok"
    /\ valid_fee_info(data_dict_list) # <<>>
    /\ invalid_count' = Len(data_dict_list) - Len(valid_fee_info(data_dict_list))
    /\ LET m == MatchLoop(NoMatch, valid_fee_info(data_dict_list),
                          FindUsers(directory, data_dict_list))
       IN  /\ index' = m.index
           /\ indices_map' = m.indices_map
           /\ IF m.fee_result = <<>>       \* lines 133-135
              THEN /\ fee_result' = <<>>
                   /\ repeat_list' = <<>>
                   /\ no_match_list' = <<>>
                   /\ RunReturns
              ELSE /\ fee_result' = m.fee_result
                   /\ repeat_list' = m.repeat_list
                   /\ no_match_list' = m.no_match_list
                   /\ pc' = "fees"
                   /\ UNCHANGED tasks_progress
    /\ UNCHANGED <<contents, directory, record_faults, data_dict_list, raised,
                   feeVars, sheet_rows, fills, tableVars>>

\* openai_client.py:30-40 with fee_service.py:149-154: math.isnan raises on
\* an amount that is no number; supplement_fee_info logs it and returns
FeesRaise ==
    /\ pc = "fees"
    /\ Partition(fee_result).raises
    /\ RunReturns
    /\ UNCHANGED <<inputVars, data_dict_list, raised, matchVars, feeVars,
                   sheet_rows, fills, tableVars>>

\* openai_client.py:30-69: the records are partitioned, the requests made
\* unique
FeesPartition ==
    /\ pc = "fees"
    /\ LET g == Partition(fee_result) IN
       /\ ~g.raises
       /\ original_fees' = g.original_fees
       /\ to_calculate' = g.to_calculate
       /\ positions' = g.positions
       /\ unique_calculations' = Unique(g.to_calculate)
       /\ pc' = IF g.to_calculate = <<>> THEN "update" ELSE "batch"
    /\ UNCHANGED <<inputVars, data_dict_list, raised, matchVars,
                   unique_results, oracle_calls, calculated_fees,
                   sheet_rows, fills, tasks_progress, tableVars>>

\* openai_client.py:71-108: one batch goes to the oracle
OracleBatch ==
    /\ pc = "batch"
    /\ LET batch == BatchAt(unique_calculations, Len(oracle_calls)) IN
       \E resp \in Responses(Len(batch)) :
          /\ oracle_calls' = Append(oracle_calls,
                                    [batch |-> batch, response |-> resp])
          /\ unique_results' = StoreResults(unique_results, batch,
                                            BatchResults(batch, resp))
    /\ pc' = IF Len(oracle_calls) + 1 >= BatchCount(unique_calculations)
             THEN "update" ELSE "batch"
    /\ UNCHANGED <<inputVars, data_dict_list, raised, matchVars,
                   original_fees, to_calculate, positions,
                   unique_calculations, calculated_fees,
                   sheet_rows, fills, tasks_progress, tableVars>>

\* openai_client.py:110-115 and fee_service.py:139-154: get_fees_batch
\* returns, the amounts are written back, supplement_fee_info returns
UpdateAmounts ==
    /\ pc = "update"
    /\ LET fees == Project(original_fees, positions, to_calculate,
                           unique_results)
       IN  /\ calculated_fees' = fees
           /\ fee_result' = UpdateLoop(fee_result, indices_map, fees, 1)
    /\ RunReturns
    /\ UNCHANGED <<inputVars, data_dict_list, raised, repeat_list,
                   no_match_list, index, invalid_count, indices_map,
                   original_fees, to_calculate, positions,
                   unique_calculations, unique_results, oracle_calls,
                   sheet_rows, fills, tableVars>>

\* excel.py:264-272 with utils/excel.py:165-223: the sheet is written, the
\* rows are filled, the task completes.  The rows of this model hold numbers,
\* None, NaN and plain text, all of which the writer accepts, so the writer
\* returns; TaskSpec lets every phase of a task raise.
WriteExcel ==
    /\ pc = "write"
    /\ sheet_rows' = [r \in 2..(Len(fee_result) + 1) |-> fee_result[r - 1]]
    /\ fills' = Highlight(fee_result, repeat_list, no_match_list)
    /\ SetProgress(Entry("completed", 100, {"result", "filename"}))
    /\ pc' = "done"
    /\ UNCHANGED <<inputVars, data_dict_list, raised, matchVars, feeVars,
                   tableVars>>

Next ==
    \/ Begin
    \/ ReadRaises \/ ReadEmpty \/ ReadRecords
    \/ SupplementNoCollection \/ SupplementNoValid \/ SupplementFindRaises
    \/ SupplementMatch
    \/ FeesRaise \/ FeesPartition \/ OracleBatch \/ UpdateAmounts
    \/ WriteExcel

\* the state of a run that upload_file_async has just queued (excel.py:130)
InitRun(sheets, dirs) ==
    /\ pc = "pending"
    /\ tasks_progress = [t \in {RunId} |-> Entry("pending", 0, {})]
    /\ contents \in sheets
    /\ record_faults = <<>>
    /\ directory \in dirs
    /\ collection = "unknown"
    /\ data_dict_list = <<>>
    /\ raised = ""
    /\ fee_result = <<>> /\ repeat_list = <<>> /\ no_match_list = <<>>
    /\ index = InitialIndex /\ invalid_count = 0 /\ indices_map = <<>>
    /\ original_fees = <<>> /\ to_calculate = <<>> /\ positions = <<>>
    /\ unique_calculations = <<>> /\ unique_results = <<>>
    /\ oracle_calls = <<>> /\ calculated_fees = <<>>
    /\ sheet_rows = <<>> /\ fills = <<>>
    /\ handler = <<>> /\ cleanup = {} /\ responses = <<>>

Init == InitRun(Sheets(MaxRecords, AllNameParts, FewAmountParts), Directories)

\* the sheets of FeeSpec: every amount part in every place; a record
\* without a name, which the matcher drops before any amount is looked at
\* (fee_service.py:67-71), in the first row only
FeeSheets(n) ==
    UNION { { [i \in 1..k |->
                 FeeRecord(i, IF i = 1 THEN f[1] ELSE NamePart(NameZ), f[2][i])] :
              f \in FewNameParts \X [1..k -> AllAmountParts] } : k \in 0..n }

FeeInit == InitRun(FeeSheets(MaxFeeRecords), {FirstDirectory})

Spec == Init /\ [][Next]_vars

FeeSpec == FeeInit /\ [][Next]_vars

(***************************************************************************)
(* The writer on its own (WriterSpec): _write_excel_in_thread applied to   *)
(* any records and any two position lists, also lists that                 *)
(* supplement_fee_info would not produce.                                  *)
(***************************************************************************)
\* the largest position listed, the number of groups and of unmatched
\* entries at most
MaxPosition == 2
MaxGroups == 2
MaxUnmatched == 1
\* fee_service.py:102: a group is made for two profiles or more
GroupSize == 2

SeqsUpTo(S, n) == UNION {[1..k -> S] : k \in 0..n}

WriterGroups == SeqsUpTo([1..GroupSize -> 0..MaxPosition], MaxGroups)
WriterUnmatched == SeqsUpTo(0..MaxPosition, MaxUnmatched)
WriterSheets ==
    {[i \in 1..k |-> _full_fee(FeeRecord(i, NamePart(NameZ), HasAmount),
                               Profile(1, NameZ))] : k \in {0, MaxPosition}}

\* the worker about to call write_dict_list_to_excel (excel.py:261-264)
WriterInit ==
    /\ pc = "write"
    /\ tasks_progress = [t \in {RunId} |-> Entry("writing", 70, {})]
    /\ fee_result \in WriterSheets
    /\ repeat_list \in WriterGroups
    /\ no_match_list \in WriterUnmatched
    /\ contents = <<>> /\ directory = <<>> /\ record_faults = <<>>
    /\ collection = "ok"
    /\ data_dict_list = <<>>
    /\ raised = ""
    /\ index = InitialIndex /\ invalid_count = 0 /\ indices_map = <<>>
    /\ original_fees = <<>> /\ to_calculate = <<>> /\ positions = <<>>
    /\ unique_calculations = <<>> /\ unique_results = <<>>
    /\ oracle_calls = <<>> /\ calculated_fees = <<>>
    /\ sheet_rows = <<>> /\ fills = <<>>
    /\ handler = <<>> /\ cleanup = {} /\ responses = <<>>

WriterNext == WriteExcel

WriterSpec == WriterInit /\ [][WriterNext]_vars

(***************************************************************************)
(* The matching loop with exceptions (FaultSpec).  The body of the loop,   *)
(* fee_service.py:98-126, stands in a try block whose handler logs and     *)
(* continues (lines 127-131).  An exception can leave the body at each of  *)
(* its calls of _full_fee(fee.copy(), ...): record_faults[i] = f > 0 says  *)
(* that for the i-th valid record the f-th such call raises (f - 1 calls   *)
(* have returned); 0, or an f beyond the record's calls, that none does.   *)
(***************************************************************************)
\* the largest f
MaxFault == 2

\* the calls of _full_fee the body makes for a record: one for each
\* profile, one when there is none
FullFeeCalls(fee, found) ==
    IF Len(UsersOf(found, fee)) > 1 THEN Len(UsersOf(found, fee)) ELSE 1

Raises(fee, found, f) == f > 0 /\ f <= FullFeeCalls(fee, found)

\* lines 97-131: one pass of the loop body in which the f-th call raises.
\* What lines 106-110 did for the profiles before it stays done; line 111
\* is not reached.
MatchOneRaising(m, fee, found, f) ==
    LET users == UsersOf(found, fee)
        n     == Len(m.fee_result)
    IN
    IF Len(users) > 1 THEN
        LET fan == FanOut(fee, SubSeq(users, 1, f - 1), m.index)
        IN  [m EXCEPT !.fee_result  = @ \o fan.fees,
                      !.index       = @ + (f - 1),
                      !.indices_map = @ \o IndicesFrom(n, f - 1)]
    ELSE m

RECURSIVE MatchLoopFaulty(_, _, _, _)
MatchLoopFaulty(m, fees, found, faults) ==
    IF fees = <<>> THEN m
    ELSE MatchLoopFaulty(
            IF Raises(Head(fees), found, Head(faults))
            THEN MatchOneRaising(m, Head(fees), found, Head(faults))
            ELSE MatchOne(m, Head(fees), found),
            Tail(fees), found, Tail(faults))

\* fee_service.py:59-135, as SupplementMatch, with the exceptions of
\* record_faults
SupplementMatchFaulty ==
    /\ pc = "supplement"
    /\ collection' = "ok"
    /\ valid_fee_info(data_dict_list) # <<>>
    /\ invalid_count' = Len(data_dict_list) - Len(valid_fee_info(data_dict_list))
    /\ LET m == MatchLoopFaulty(NoMatch, valid_fee_info(data_dict_list),
                                FindUsers(directory, data_dict_list),
                                record_faults)
       IN  /\ index' = m.index
           /\ indices_map' = m.indices_map
           /\ IF m.fee_result = <<>>       \* lines 133-135
              THEN /\ fee_result' = <<>>
                   /\ repeat_list' = <<>>
                   /\ no_match_list' = <<>>
                   /\ RunReturns
              ELSE /\ fee_result' = m.fee_result
                   /\ repeat_list' = m.repeat_list
                   /\ no_match_list' = m.no_match_list
                   /\ pc' = "fees"
                   /\ UNCHANGED tasks_progress
    /\ UNCHANGED <<contents, directory, record_faults, data_dict_list, raised,
                   feeVars, sheet_rows, fills, tableVars>>

PlainNameParts == {NamePart(NameZ), NamePart(NameL), NamePart(NameW)}

\* the worker about to call supplement_fee_info (excel.py:253-256), every
\* record of its sheet with a name
FaultInit ==
    /\ pc = "supplement"
    /\ tasks_progress = [t \in {RunId} |-> Entry("processing", 40, {})]
    /\ contents \in Sheets(MaxRecords, PlainNameParts,
                           {Request(PyInt(8), PyStr(1))}) \ {<<>>}
    /\ data_dict_list = contents
    /\ record_faults \in [1..Len(contents) -> 0..MaxFault]
    /\ directory \in Directories
    /\ collection = "unknown"
    /\ raised = ""
    /\ fee_result = <<>> /\ repeat_list = <<>> /\ no_match_list = <<>>
    /\ index = InitialIndex /\ invalid_count = 0 /\ indices_map = <<>>
    /\ original_fees = <<>> /\ to_calculate = <<>> /\ positions = <<>>
    /\ unique_calculations = <<>> /\ unique_results = <<>>
    /\ oracle_calls = <<>> /\ calculated_fees = <<>>
    /\ sheet_rows = <<>> /\ fills = <<>>
    /\ handler = <<>> /\ cleanup = {} /\ responses = <<>>

FaultNext == SupplementMatchFaulty

FaultSpec == FaultInit /\ [][FaultNext]_vars

(***************************************************************************)
(* The task table under concurrent requests (TaskSpec).  Each upload is    *)
(* one task id; handler[t] tells which endpoint took it and where its      *)
(* handler, or its background worker, stands.  A phase of the pipeline is  *)
(* reduced to its outcome.                                                 *)
(***************************************************************************)
TaskIds == 1..MaxTasks

Idle == [kind |-> "none", pc |-> "idle"]

At(t, kind, where) == handler[t].kind = kind /\ handler[t].pc = where
Goto(t, where) == handler' = [handler EXCEPT ![t].pc = where]

\* Put with one entry shared by all tasks: the write goes to every key of
\* the table
Put_Shared(t, entry) ==
    tasks_progress' = [u \in DOMAIN tasks_progress \cup {t} |-> entry]

\* tasks_progress[task_id] = entry
Put(t, entry) ==
    tasks_progress' = [u \in DOMAIN tasks_progress \cup {t} |->
                          IF u = t THEN entry ELSE tasks_progress[u]]

\* tasks_progress.pop(task_id, None)
Pop(t) ==
    tasks_progress' = [u \in DOMAIN tasks_progress \ {t} |-> tasks_progress[u]]

\* excel.py:42-43, 125-126: not an Excel file name; nothing is recorded
UploadRejected(t) ==
    /\ handler[t] = Idle
    /\ handler' = [handler EXCEPT ![t] = [kind |-> "none", pc |-> "rejected"]]
    /\ UNCHANGED <<runVars, tasks_progress, cleanup, responses>>

\* ---- upload_file, excel.py:45-100 ----
\* lines 47-51
UploadFileBegin(t) ==
    /\ handler[t] = Idle
    /\ handler' = [handler EXCEPT ![t] = [kind |-> "sync", pc |-> "reading"]]
    /\ Put(t, Entry("reading", 10, {}))
    /\ UNCHANGED <<runVars, cleanup, responses>>

\* lines 54-60: the sheet was read and holds records
UploadFileRead(t) ==
    /\ At(t, "sync", "reading")
    /\ Put(t, Entry("processing", 40, {}))
    /\ Goto(t, "processing")
    /\ UNCHANGED <<runVars, cleanup, responses>>

\* lines 63-68: supplement_fee_info returned
UploadFileSupplemented(t) ==
    /\ At(t, "sync", "processing")
    /\ Put(t, Entry("writing", 70, {}))
    /\ Goto(t, "writing")
    /\ UNCHANGED <<runVars, cleanup, responses>>

\* lines 71-90: the sheet was written; the response carries the file and
\* the clean-up of the entry is queued behind it
UploadFileWritten(t) ==
    /\ At(t, "sync", "writing")
    /\ Put(t, Entry("completed", 100, {}))
    /\ cleanup' = cleanup \cup {t}
    /\ Goto(t, "returned")
    /\ UNCHANGED <<runVars, responses>>

\* UploadFileRaises with the entry popped on the way out
UploadFileRaises_Pops(t) ==
    /\ handler[t].kind = "sync"
    /\ handler[t].pc \in {"reading", "processing", "writing"}
    /\ Goto(t, "raised")
    /\ Pop(t)
    /\ UNCHANGED <<runVars, cleanup, responses>>

\* lines 56-57, 91-100: a phase raises (the reader, an empty sheet,
\* supplement_fee_info, the writer); the exception goes to the caller and
\* the entry is left as it is
UploadFileRaises(t) ==
    /\ handler[t].kind = "sync"
    /\ handler[t].pc \in {"reading", "processing", "writing"}
    /\ Goto(t, "raised")
    /\ UNCHANGED <<runVars, tasks_progress, cleanup, responses>>

\* line 80: the queued tasks_progress.pop(task_id, None)
CleanupProgress(t) ==
    /\ t \in cleanup
    /\ cleanup' = cleanup \ {t}
    /\ Pop(t)
    /\ UNCHANGED <<runVars, handler, responses>>

\* ---- upload_file_async, excel.py:124-151 ----
\* lines 129-130
UploadFileAsyncBegin(t) ==
    /\ handler[t] = Idle
    /\ handler' = [handler EXCEPT ![t] = [kind |-> "async", pc |-> "accepted"]]
    /\ Put(t, Entry("pending", 0, {}))
    /\ UNCHANGED <<runVars, cleanup, responses>>

\* lines 133-151: the file was read, the worker is queued, the id returned
UploadFileAsyncQueued(t) ==
    /\ At(t, "async", "accepted")
    /\ Goto(t, "pending")
    /\ UNCHANGED <<runVars, tasks_progress, cleanup, responses>>

\* line 133: file.read() raises; no worker is queued
UploadFileAsyncRaises(t) ==
    /\ At(t, "async", "accepted")
    /\ Goto(t, "raised")
    /\ UNCHANGED <<runVars, tasks_progress, cleanup, responses>>

\* ---- process_excel_file_background, excel.py:237-285 ----
\* line 239
BackgroundBegin(t) ==
    /\ At(t, "async", "pending")
    /\ Put(t, Entry("reading", 10, {}))
    /\ Goto(t, "reading")
    /\ UNCHANGED <<runVars, cleanup, responses>>

\* BackgroundRead without the report of line 253: the next report is that
\* of line 261
BackgroundRead_SkipsPhase(t) ==
    /\ At(t, "async", "reading")
    /\ Put(t, Entry("writing", 70, {}))
    /\ Goto(t, "processing")
    /\ UNCHANGED <<runVars, cleanup, responses>>

\* lines 242-253: the sheet holds records
BackgroundRead(t) ==
    /\ At(t, "async", "reading")
    /\ Put(t, Entry("processing", 40, {}))
    /\ Goto(t, "processing")
    /\ UNCHANGED <<runVars, cleanup, responses>>

\* lines 244-250: the sheet is empty or missing
BackgroundEmpty(t) ==
    /\ At(t, "async", "reading")
    /\ Put(t, Entry("error", 0, {"error"}))
    /\ Goto(t, "done")
    /\ UNCHANGED <<runVars, cleanup, responses>>

\* lines 256-261
BackgroundSupplemented(t) ==
    /\ At(t, "async", "processing")
    /\ Put(t, Entry("writing", 70, {}))
    /\ Goto(t, "writing")
    /\ UNCHANGED <<runVars, cleanup, responses>>

\* lines 264-272
BackgroundWritten(t) ==
    /\ At(t, "async", "writing")
    /\ Put(t, Entry("completed", 100, {"result", "filename"}))
    /\ Goto(t, "done")
    /\ UNCHANGED <<runVars, cleanup, responses>>

\* lines 274-285: a phase raises
BackgroundRaises(t) ==
    /\ handler[t].kind = "async"
    /\ handler[t].pc \in {"reading", "processing", "writing"}
    /\ Put(t, Entry("error", 0, {"error"}))
    /\ Goto(t, "done")
    /\ UNCHANGED <<runVars, cleanup, responses>>

\* ---- get_task_progress, excel.py:167-176 ----
NoEntry == Entry("", 0, {})

ProgressAnswer(table, t) ==
    IF t \notin DOMAIN table
    THEN [op |-> "progress", task |-> t, code |-> 404, task_info |-> NoEntry,
          body |-> "detail"]
    ELSE [op |-> "progress", task |-> t, code |-> 200, task_info |-> table[t],
          body |-> "data"]

GetTaskProgress(t) ==
    /\ responses' = ProgressAnswer(tasks_progress, t)
    /\ responses' # responses
    /\ UNCHANGED <<runVars, tasks_progress, handler, cleanup>>

\* DownloadAnswer without the tests of lines 198-205
DownloadAnswer_NoStatusTest(table, t) ==
    IF t \notin DOMAIN table
    THEN [op |-> "download", task |-> t, code |-> 404, task_info |-> NoEntry,
          body |-> "detail"]
    ELSE [op |-> "download", task |-> t, code |-> 200, task_info |-> table[t],
          body |-> "result"]

\* ---- download_processed_file, excel.py:192-217 ----
DownloadAnswer(table, t) ==
    IF t \notin DOMAIN table
    THEN [op |-> "download", task |-> t, code |-> 404, task_info |-> NoEntry,
          body |-> "detail"]
    ELSE IF table[t].status # "completed"
    THEN [op |-> "download", task |-> t, code |-> 400, task_info |-> table[t],
          body |-> "detail"]
    ELSE IF "result" \notin table[t].keys
    THEN [op |-> "download", task |-> t, code |-> 500, task_info |-> table[t],
          body |-> "detail"]
    ELSE [op |-> "download", task |-> t, code |-> 200, task_info |-> table[t],
          body |-> "result"]

DownloadProcessedFile(t) ==
    /\ responses' = DownloadAnswer(tasks_progress, t)
    /\ responses' # responses
    /\ UNCHANGED <<runVars, tasks_progress, handler, cleanup>>

TaskNext ==
    \E t \in TaskIds :
        \/ UploadRejected(t)
        \/ UploadFileBegin(t) \/ UploadFileRead(t) \/ UploadFileSupplemented(t)
        \/ UploadFileWritten(t) \/ UploadFileRaises(t) \/ CleanupProgress(t)
        \/ UploadFileAsyncBegin(t) \/ UploadFileAsyncQueued(t)
        \/ UploadFileAsyncRaises(t)
        \/ BackgroundBegin(t) \/ BackgroundRead(t) \/ BackgroundEmpty(t)
        \/ BackgroundSupplemented(t) \/ BackgroundWritten(t)
        \/ BackgroundRaises(t)
        \/ GetTaskProgress(t) \/ DownloadProcessedFile(t)

TaskInit ==
    /\ pc = "idle"
    /\ tasks_progress = <<>>
    /\ contents = <<>> /\ directory = <<>> /\ record_faults = <<>>
    /\ collection = "unknown"
    /\ data_dict_list = <<>>
    /\ raised = ""
    /\ fee_result = <<>> /\ repeat_list = <<>> /\ no_match_list = <<>>
    /\ index = InitialIndex /\ invalid_count = 0 /\ indices_map = <<>>
    /\ original_fees = <<>> /\ to_calculate = <<>> /\ positions = <<>>
    /\ unique_calculations = <<>> /\ unique_results = <<>>
    /\ oracle_calls = <<>> /\ calculated_fees = <<>>
    /\ sheet_rows = <<>> /\ fills = <<>>
    /\ handler = [t \in TaskIds |-> Idle]
    /\ cleanup = {}
    /\ responses = [op |-> "none", task |-> 0, code |-> 0,
                    task_info |-> NoEntry, body |-> ""]

TaskSpec == TaskInit /\ [][TaskNext]_vars

(***************************************************************************)
(* Vocabulary of the properties.                                           *)
(***************************************************************************)
Status == tasks_progress[RunId].status

\* the matcher has produced its output and its two position lists
Matched == collection = "ok" /\ pc \in {"fees", "batch", "update", "write", "done"}

\* supplement_fee_info has returned to the worker
SupplementReturned == pc = "write" \/ (pc = "done" /\ Status = "completed")

\* zero-based indices of the output sequence
OutputIdx == 0..(Len(fee_result) - 1)

\* the input record an output record was made from (its 编号)
InputOf(k) == data_dict_list[fee_result[k + 1].row]

\* the number of profiles the matcher found for output record k
ProfilesOf(k) ==
    Len(UsersOf(FindUsers(directory, data_dict_list), InputOf(k)))

DuplicateIdx == {k \in OutputIdx : ProfilesOf(k) > 1}
UnmatchedIdx == {k \in OutputIdx : ProfilesOf(k) = 0}
UniqueIdx    == {k \in OutputIdx : ProfilesOf(k) = 1}

DuplicatePositions == Range(Flatten(repeat_list))
UnmatchedPositions == Range(no_match_list)

\* the indices of a set, in increasing order, each shifted by base
ShiftedSeq(idxs, base) ==
    LET all == [k \in 1..Len(fee_result) |-> k - 1]
    IN  [j \in 1..Cardinality(idxs) |->
            SelectSeq(all, LAMBDA k : k \in idxs)[j] + base]

(***************************************************************************)
(* C1: the positions in the duplicate groups and the positions in the      *)
(* unmatched list are disjoint, and all lie in [0, len(output)).           *)
(* The code counts positions from 2 (index starts at 1 and is incremented  *)
(* before it is recorded), so the last record's position is len(output)+1. *)
(***************************************************************************)
C1_PositionsInRange ==
    /\ DuplicatePositions \cap UnmatchedPositions = {}
    /\ DuplicatePositions \cup UnmatchedPositions \subseteq OutputIdx

(***************************************************************************)
(* C2: every recorded position is the index at which its record was        *)
(* appended to the output, zero-based throughout or one-based throughout.  *)
(***************************************************************************)
PositionsAreIndices(base) ==
    /\ Flatten(repeat_list) = ShiftedSeq(DuplicateIdx, base)
    /\ no_match_list = ShiftedSeq(UnmatchedIdx, base)

C2_PositionsAreIndices ==
    Matched => PositionsAreIndices(0) \/ PositionsAreIndices(1)

(***************************************************************************)
(* C3: in the written sheet the rows with the duplicate fill are exactly   *)
(* the rows of the records of names with two or more profiles, the rows    *)
(* with the unmatched fill exactly those of names with no profile, and the *)
(* rows of uniquely matched records have no fill.  Output record k is in   *)
(* sheet row k + 2.                                                        *)
(***************************************************************************)
RowsFilled(colour) == {r \in DOMAIN fills : fills[r] = colour}

C3_FillsOnTheirRows ==
    (pc = "done" /\ Status = "completed" /\ collection = "ok") =>
        /\ RowsFilled("red") = {k + 2 : k \in DuplicateIdx}
        /\ RowsFilled("yellow") = {k + 2 : k \in UnmatchedIdx}
        /\ \A k \in UniqueIdx : k + 2 \notin DOMAIN fills

(***************************************************************************)
(* C4: when supplement_fee_info returns, every input record with a name    *)
(* has at least one output record, every input record without a name has   *)
(* none, and the drop count is the number of records without a name.       *)
(***************************************************************************)
OutputsOf(i) == {k \in OutputIdx : fee_result[k + 1].row = i}

C4_Completeness ==
    SupplementReturned =>
        /\ \A i \in 1..Len(data_dict_list) :
              IF LacksName(data_dict_list[i])
              THEN OutputsOf(i) = {}
              ELSE OutputsOf(i) # {}
        /\ invalid_count =
              Cardinality({i \in 1..Len(data_dict_list) :
                              LacksName(data_dict_list[i])})

\* what the code does where C1-C4 fail: positions are indices shifted by 2,
\* fills land two rows below their record (the unmatched fill is applied
\* last), and only a run without collection hands nameless records through
CodePositions == Matched => PositionsAreIndices(2)
CodeFills ==
    (pc = "done" /\ Status = "completed" /\ collection = "ok") =>
        /\ RowsFilled("yellow") = {k + 4 : k \in UnmatchedIdx}
        /\ RowsFilled("red") = {k + 4 : k \in DuplicateIdx} \ RowsFilled("yellow")
CodeCompleteness == collection = "ok" => C4_Completeness

(***************************************************************************)
(* Vocabulary of the amount properties.                                    *)
(***************************************************************************)
\* get_fees_batch has returned and the amounts were written back
AmountsWritten == pc \in {"write", "done"} /\ calculated_fees # <<>>

\* the amount that temp_fees[p] (zero-based p) ends with
AmountAt(p) == fee_result[indices_map[p + 1] + 1].amount

\* the records that asked for a computation, as indices into positions /
\* to_calculate, and the key each asked with
Askers == 1..Len(positions)
KeyOfAsker(a) == to_calculate[a][1]

SameOutcome(v, w) ==
    \/ IsNumber(v) /\ IsNumber(w) /\ v[2] = w[2]
    \/ ~IsNumber(v) /\ ~IsNumber(w)

Calls == 1..Len(oracle_calls)
KeysOfCall(c) == {CalKey(cal_data) : cal_data \in Range(oracle_calls[c].batch)}

\* how often a key was sent to the oracle, over all batches
TimesSent(key) ==
    Cardinality({<<c, j>> \in Calls \X (1..batch_size) :
                    /\ j <= Len(oracle_calls[c].batch)
                    /\ CalKey(oracle_calls[c].batch[j]) = key})

(***************************************************************************)
(* C5: two records that need a computation and have the same pair of       *)
(* texts (hours, rate) end the run with the same amount, or both without   *)
(* one, and that pair is sent to the oracle at most once, whatever the     *)
(* oracle answers.                                                         *)
(***************************************************************************)
C5_DedupCorrect ==
    /\ AmountsWritten =>
          \A a, b \in Askers :
              KeyOfAsker(a) = KeyOfAsker(b) =>
                  SameOutcome(AmountAt(positions[a]), AmountAt(positions[b]))
    /\ \A a \in Askers : TimesSent(KeyOfAsker(a)) <= 1

\* the part of C5 the code keeps: no pair is sent twice
CodeSendsOnce == \A a \in Askers : TimesSent(KeyOfAsker(a)) <= 1

(***************************************************************************)
(* C6: a record that enters with a numeric amount keeps that amount, and   *)
(* no request is sent to the oracle on its behalf: every request of every  *)
(* batch is the request of some record that came without a valid amount.   *)
(***************************************************************************)
HadAmount(fee) == "amount" \in fee.keys /\ IsNumber(fee.amount)

C6_ValidAmountKept ==
    /\ \A k \in OutputIdx :
          HadAmount(InputOf(k)) =>
              /\ IsNumber(fee_result[k + 1].amount)
              /\ fee_result[k + 1].amount[2] = InputOf(k).amount[2]
    /\ \A c \in Calls : \A cal_data \in Range(oracle_calls[c].batch) :
          \E k \in OutputIdx :
              /\ ~HadAmount(InputOf(k))
              /\ {"hours", "standard"} \subseteq InputOf(k).keys
              /\ CalData(InputOf(k)) = cal_data

\* a record with an amount went through a run in which another record with
\* the same request had its amount computed
C6_Witness ==
    /\ pc = "done"
    /\ \E k, j \in OutputIdx :
          /\ HadAmount(InputOf(k))
          /\ fee_result[k + 1].amount = PyFloat(InputOf(k).amount[2])
          /\ ~HadAmount(InputOf(j))
          /\ CalKey(CalData(InputOf(j))) = CalKey(CalData(InputOf(k)))
          /\ fee_result[j + 1].amount = PyInt(7)

(***************************************************************************)
(* C7: when the oracle answers a batch with a list of another length,      *)
(* every record whose request is in that batch gets a failure marker, no   *)
(* amount is assigned from that answer, and the run ends completed.        *)
(***************************************************************************)
WrongLength(c) ==
    /\ oracle_calls[c].response.kind = "list"
    /\ Len(oracle_calls[c].response.items) # Len(oracle_calls[c].batch)

C7_WrongLengthDegrades ==
    \A c \in Calls :
        WrongLength(c) =>
            /\ \A key \in KeysOfCall(c) : CacheGet(unique_results, key) = PyNaN
            /\ AmountsWritten =>
                  \A a \in Askers :
                      KeyOfAsker(a) \in KeysOfCall(c) =>
                          /\ calculated_fees[positions[a] + 1] = PyNaN
                          /\ AmountAt(positions[a]) = PyNaN
            /\ raised = ""
            /\ Status \in {"processing", "writing", "completed"}
            /\ pc = "done" => Status = "completed"

\* a completed run in which one batch got a list of the wrong length and
\* another batch an amount
C7_Witness ==
    /\ pc = "done" /\ Status = "completed"
    /\ \E c, d \in Calls :
          /\ WrongLength(c)
          /\ oracle_calls[d].response.kind = "list"
          /\ ~WrongLength(d)
          /\ \E a \in Askers : AmountAt(positions[a]) = PyInt(7)

(***************************************************************************)
(* C8: when the oracle raises or answers one batch with malformed data,    *)
(* the records of that batch get failure markers, the records of every     *)
(* other batch get that batch's result, and the task ends completed.       *)
(* Malformed: not decodable as a list of numbers-or-failures of the        *)
(* batch's length.                                                         *)
(***************************************************************************)
Malformed(c) ==
    LET resp == oracle_calls[c].response IN
    \/ resp.kind # "list"
    \/ Len(resp.items) # Len(oracle_calls[c].batch)
    \/ \E j \in 1..Len(resp.items) :
          ~IsNumber(resp.items[j]) /\ ~IsFailure(resp.items[j])

\* the result the (well-formed) call c gave for key
ResultFor(c, key) ==
    LET j == CHOOSE j \in 1..Len(oracle_calls[c].batch) :
                 CalKey(oracle_calls[c].batch[j]) = key
    IN  oracle_calls[c].response.items[j]

C8_OtherBatchesResolve ==
    (pc = "done" /\ calculated_fees # <<>>) =>
        /\ Status = "completed"
        /\ \A c \in Calls : \A a \in Askers :
              KeyOfAsker(a) \in KeysOfCall(c) =>
                  IF Malformed(c)
                  THEN ~IsNumber(AmountAt(positions[a]))
                  ELSE SameOutcome(AmountAt(positions[a]),
                                   ResultFor(c, KeyOfAsker(a)))

(***************************************************************************)
(* Vocabulary of the task table properties.                                *)
(***************************************************************************)
Terminal == {"completed", "error"}

\* nothing is left that will write the entry of t: its handler has raised
\* or returned, or its background worker has finished
Finished(t) == handler[t].pc \in {"raised", "returned", "done"}

\* no upload has taken the id t: it was never put into tasks_progress
Unknown(t) == handler[t].pc \in {"idle", "rejected"}

(***************************************************************************)
(* C9: every task id put into tasks_progress, by upload_file or by         *)
(* upload_file_async, reaches one terminal state (completed or error) and  *)
(* its entry is never left in a non-terminal state, also when the pipeline *)
(* raises at any phase: once nothing is left that will write the entry,    *)
(* the entry, while it is there, is completed or error.                    *)
(***************************************************************************)
C9_EntriesEndTerminal ==
    \A t \in TaskIds :
        (Finished(t) /\ t \in DOMAIN tasks_progress) =>
            tasks_progress[t].status \in Terminal

\* the part of C9 the background worker keeps
CodeWorkerEndsTerminal ==
    \A t \in TaskIds :
        (handler[t].kind = "async" /\ handler[t].pc = "done") =>
            /\ t \in DOMAIN tasks_progress
            /\ tasks_progress[t].status \in Terminal

(***************************************************************************)
(* C10: whatever the task is doing when the request arrives, a download    *)
(* for a task whose status is not completed is rejected and gives no       *)
(* result bytes, and a download for an unknown task id is answered         *)
(* not found.                                                              *)
(***************************************************************************)
C10_DownloadRejected ==
    responses.op = "download" =>
        /\ Unknown(responses.task) =>
              responses.code = 404 /\ responses.body # "result"
        /\ (responses.task_info # NoEntry
              /\ responses.task_info.status # "completed") =>
              responses.code = 400 /\ responses.body # "result"
        /\ responses.body = "result" =>
              /\ responses.code = 200
              /\ responses.task_info.status = "completed"
              /\ "result" \in responses.task_info.keys

\* a download was rejected while the worker of its task was between two
\* phases, and the worker has since finished
C10_Witness ==
    /\ responses.op = "download"
    /\ responses.code = 400
    /\ responses.task_info.status \in {"pending", "reading", "processing",
                                       "writing"}
    /\ handler[responses.task] = [kind |-> "async", pc |-> "done"]
    /\ tasks_progress[responses.task].status = "completed"

(***************************************************************************)
(* C11: whenever a poll of a task, created by either upload endpoint,      *)
(* reports status completed, a fetch of that task id at that moment        *)
(* returns the task's result bytes, not a rejection or an error.           *)
(***************************************************************************)
PollsCompleted(t) ==
    /\ ProgressAnswer(tasks_progress, t).code = 200
    /\ ProgressAnswer(tasks_progress, t).task_info.status = "completed"

C11_CompletedIsFetchable ==
    \A t \in TaskIds :
        PollsCompleted(t) =>
            /\ DownloadAnswer(tasks_progress, t).code = 200
            /\ DownloadAnswer(tasks_progress, t).body = "result"

\* the part of C11 the background worker keeps
CodeAsyncCompletedIsFetchable ==
    \A t \in TaskIds :
        (PollsCompleted(t) /\ handler[t].kind = "async") =>
            DownloadAnswer(tasks_progress, t).body = "result"

(***************************************************************************)
(* C12: whenever the directory cannot be queried (there is no collection,  *)
(* or the find call raises), supplement_fee_info aborts with a lookup      *)
(* failure; it never returns an output whose records were passed through   *)
(* or labelled unmatched without a lookup having succeeded.                *)
(***************************************************************************)
\* supplement_fee_info was called and has returned or raised
SupplementLeft == pc \in {"write", "done"} /\ data_dict_list # <<>>

FindRaised == collection = "unreachable" /\ valid_fee_info(data_dict_list) # <<>>

C12_LookupFailureAborts ==
    (SupplementLeft /\ (collection = "none" \/ FindRaised)) =>
        /\ raised = "InternalServerException"
        /\ fee_result = <<>>
        /\ no_match_list = <<>>

\* the part of C12 the code keeps: a find that raises aborts the call
CodeFindRaisedAborts ==
    (SupplementLeft /\ FindRaised) =>
        raised = "InternalServerException" /\ fee_result = <<>>

(***************************************************************************)
(* C13: supplement_fee_info fails with the no-valid-records condition      *)
(* (BadRequestException) exactly when every input record lacks a non-empty *)
(* name; when at least one record has a non-empty name, dropped records    *)
(* never make the call fail.                                               *)
(***************************************************************************)
AllLackName == valid_fee_info(data_dict_list) = <<>>

C13_NoValidRecords ==
    SupplementLeft =>
        /\ raised = "BadRequestException" <=> AllLackName
        /\ (~AllLackName /\ raised # "") => FindRaised

\* what the code does: the condition is met only when there is a collection
CodeNoValidRecords ==
    SupplementLeft =>
        /\ raised = "BadRequestException" <=>
              (AllLackName /\ collection # "none")
        /\ (~AllLackName /\ raised # "") => FindRaised

(***************************************************************************)
(* Vocabulary of the classification properties.  A record's name has the   *)
(* profiles of the directory that carry that name; the properties speak of *)
(* names that hold no space, which read the same before and after the      *)
(* removal of spaces.                                                      *)
(***************************************************************************)
InputIdx == 1..Len(data_dict_list)

PlainName(i) ==
    /\ ~LacksName(data_dict_list[i])
    /\ StripSpaces(data_dict_list[i].name) = data_dict_list[i].name

DirectoryProfiles(i) ==
    SelectSeq(directory, LAMBDA user : user.name = data_dict_list[i].name)

\* the positions that designate the output records of input record i, when
\* positions count from base
Designating(i, base) == {k + base : k \in OutputsOf(i)}

\* the output records of input record i carry the record's own hours, rate
\* and row
SameBaseData(i) ==
    \A k \in OutputsOf(i) :
        /\ fee_result[k + 1].hours = data_dict_list[i].hours
        /\ fee_result[k + 1].standard = data_dict_list[i].standard
        /\ fee_result[k + 1].row = data_dict_list[i].row

ContactOf(r) == <<r.id_card, r.bank_card, r.phone, r.bank_name>>

(***************************************************************************)
(* C14: an input record whose name has n >= 2 directory profiles gives     *)
(* exactly n output records at adjacent output positions, one per profile  *)
(* with the same base record data, and exactly one duplicate group, which  *)
(* lists exactly those n records and nothing else (positions counted from  *)
(* 0 throughout or from 1 throughout).                                     *)
(***************************************************************************)
FannedOut(i) ==
    LET n == Len(DirectoryProfiles(i)) IN
    /\ Cardinality(OutputsOf(i)) = n
    /\ \A k, l \in OutputsOf(i) : k - l < n
    /\ SameBaseData(i)
    /\ {ContactOf(fee_result[k + 1]) : k \in OutputsOf(i)}
         = {ContactOf(user) : user \in Range(DirectoryProfiles(i))}

OneGroup(i, base) ==
    /\ Cardinality({g \in 1..Len(repeat_list) :
                       Range(repeat_list[g]) = Designating(i, base)}) = 1
    /\ \A g \in 1..Len(repeat_list) :
          Range(repeat_list[g]) \cap Designating(i, base) # {} =>
              /\ Range(repeat_list[g]) = Designating(i, base)
              /\ Len(repeat_list[g]) = Len(DirectoryProfiles(i))

C14_DuplicateFanOut ==
    Matched =>
        \E base \in {0, 1} : \A i \in InputIdx :
            (PlainName(i) /\ Len(DirectoryProfiles(i)) >= 2) =>
                FannedOut(i) /\ OneGroup(i, base)

\* what the code does: the fan-out as claimed, the group two positions off
CodeDuplicateFanOut ==
    Matched =>
        \A i \in InputIdx :
            (PlainName(i) /\ Len(DirectoryProfiles(i)) >= 2) =>
                FannedOut(i) /\ OneGroup(i, 2)

(***************************************************************************)
(* C15: an input record whose name has no directory profile gives exactly  *)
(* one output record, with the id-card, bank-card, phone and bank-name     *)
(* fields blank and the name as it was, and exactly one entry of the       *)
(* unmatched list, which designates that record (positions counted from 0  *)
(* throughout or from 1 throughout).                                       *)
(***************************************************************************)
EmittedBlank(i) ==
    /\ Cardinality(OutputsOf(i)) = 1
    /\ SameBaseData(i)
    /\ \A k \in OutputsOf(i) :
          /\ ContactOf(fee_result[k + 1]) = <<PyNone, PyNone, PyNone, PyNone>>
          /\ fee_result[k + 1].name = data_dict_list[i].name

OneUnmatchedEntry(i, base) ==
    Cardinality({e \in 1..Len(no_match_list) :
                    no_match_list[e] \in Designating(i, base)}) = 1

C15_UnmatchedRecord ==
    Matched =>
        \E base \in {0, 1} : \A i \in InputIdx :
            (PlainName(i) /\ Len(DirectoryProfiles(i)) = 0) =>
                EmittedBlank(i) /\ OneUnmatchedEntry(i, base)

\* what the code does: the record as claimed, its entry two positions off
CodeUnmatchedRecord ==
    Matched =>
        \A i \in InputIdx :
            (PlainName(i) /\ Len(DirectoryProfiles(i)) = 0) =>
                EmittedBlank(i) /\ OneUnmatchedEntry(i, 2)

(***************************************************************************)
(* C16: an input record whose name has exactly one directory profile gives *)
(* exactly one output record, whose id-card, bank-card, phone and          *)
(* bank-name are the profile's, and the position of that record is in no   *)
(* duplicate group and not in the unmatched list (positions counted from 0 *)
(* throughout or from 1 throughout).                                       *)
(***************************************************************************)
EmittedMerged(i) ==
    /\ Cardinality(OutputsOf(i)) = 1
    /\ SameBaseData(i)
    /\ \A k \in OutputsOf(i) :
          ContactOf(fee_result[k + 1]) = ContactOf(DirectoryProfiles(i)[1])

Unlisted(i, base) ==
    Designating(i, base) \cap (DuplicatePositions \cup UnmatchedPositions) = {}

C16_MatchedRecord ==
    Matched =>
        \E base \in {0, 1} : \A i \in InputIdx :
            (PlainName(i) /\ Len(DirectoryProfiles(i)) = 1) =>
                EmittedMerged(i) /\ Unlisted(i, base)

\* what the code does: the record as claimed, unlisted when positions count
\* from 2
CodeMatchedRecord ==
    Matched =>
        \A i \in InputIdx :
            (PlainName(i) /\ Len(DirectoryProfiles(i)) = 1) =>
                EmittedMerged(i) /\ Unlisted(i, 2)

(***************************************************************************)
(* C17: what a poller can observe of a task submitted through              *)
(* upload_file_async is a prefix of pending(0), reading(10),               *)
(* processing(40), writing(70), completed(100), in that order, no phase    *)
(* skipped or revisited, possibly cut short at any phase by one transition *)
(* to error, which carries a message.                                      *)
(***************************************************************************)
PhaseOrder == <<"pending", "reading", "processing", "writing", "completed">>
PhaseProgress == <<0, 10, 40, 70, 100>>

PhaseNo(status) == CHOOSE n \in 1..Len(PhaseOrder) : PhaseOrder[n] = status

IsPhase(entry) ==
    /\ entry.status \in Range(PhaseOrder)
    /\ entry.progress = PhaseProgress[PhaseNo(entry.status)]

IsError(entry) == entry.status = "error" /\ "error" \in entry.keys

\* the step from entry to next is one a poller may see
PhaseStep(entry, next) ==
    /\ IsPhase(entry) /\ entry.status # "completed"
    /\ \/ IsPhase(next) /\ PhaseNo(next.status) = PhaseNo(entry.status) + 1
       \/ IsError(next)

AsyncStep(t) ==
    /\ t \in DOMAIN tasks_progress => t \in DOMAIN tasks_progress'
    /\ (t \notin DOMAIN tasks_progress /\ t \in DOMAIN tasks_progress') =>
          tasks_progress'[t] = Entry("pending", 0, {})
    /\ (t \in DOMAIN tasks_progress /\ tasks_progress'[t] # tasks_progress[t]) =>
          PhaseStep(tasks_progress[t], tasks_progress'[t])

C17_AsyncPhases ==
    [][\A t \in TaskIds : handler'[t].kind = "async" => AsyncStep(t)]_vars

\* one task submitted through upload_file_async went through every phase,
\* another was cut short by an error
C17_Witness ==
    \E t, u \in TaskIds :
        /\ handler[t] = [kind |-> "async", pc |-> "done"]
        /\ handler[u] = [kind |-> "async", pc |-> "done"]
        /\ tasks_progress[t].status = "completed"
        /\ tasks_progress[t].progress = 100
        /\ IsError(tasks_progress[u])

(***************************************************************************)
(* C18: an input that fails validation (bad file type, empty or missing    *)
(* target sheet, all records lacking a name) is refused to the submitting  *)
(* caller at once and its run never starts: no task for such an input ever *)
(* enters reading, processing or writing.                                  *)
(***************************************************************************)
\* the sheet of the run is empty or missing, or none of its records has a
\* name
InvalidInput == contents = <<>> \/ valid_fee_info(contents) = <<>>

C18_InvalidInputNeverStarts ==
    InvalidInput => Status \notin {"reading", "processing", "writing"}

\* the part of C18 the code keeps: a file of a bad type gets no task
CodeBadTypeNeverStarts ==
    \A t \in TaskIds :
        handler[t].pc = "rejected" => t \notin DOMAIN tasks_progress

(***************************************************************************)
(* C19: when the oracle's answer to a batch cannot be decoded as a         *)
(* sequence of numbers (a list of the right length that holds an element   *)
(* that is no number included), every request of that batch is given a     *)
(* failure result, no exception leaves the amount-update step, and the     *)
(* records of other requests are still updated.                            *)
(***************************************************************************)
\* the result get_fees_batch keeps for the request of asker a
ResultOfAsker(a) == calculated_fees[positions[a] + 1]

\* the update step went through every result: each number among the
\* results reached its record
UpdateCompleted ==
    \A p \in 1..Len(calculated_fees) :
        IsNumber(calculated_fees[p]) =>
            fee_result[indices_map[p] + 1].amount[2] = calculated_fees[p][2]

C19_UndecodableBatchFails ==
    /\ \A c \in Calls : Malformed(c) =>
          \A key \in KeysOfCall(c) : IsFailure(CacheGet(unique_results, key))
    /\ AmountsWritten =>
          /\ \A a \in Askers : IsNumber(ResultOfAsker(a)) \/ IsFailure(ResultOfAsker(a))
          /\ UpdateCompleted

\* what the code does for an answer that is no list, or a list of another
\* length: every request of the batch fails and the update goes through
CodeUndecodedBatchFails ==
    /\ \A c \in Calls :
          (oracle_calls[c].response.kind # "list" \/ WrongLength(c)) =>
              \A key \in KeysOfCall(c) : CacheGet(unique_results, key) = PyNaN
    /\ (AmountsWritten /\ \A c \in Calls : ~Malformed(c)
                                           \/ oracle_calls[c].response.kind # "list"
                                           \/ WrongLength(c)) =>
          UpdateCompleted

(***************************************************************************)
(* C20: in _write_excel_in_thread, when the same position is listed both   *)
(* in a duplicate group and in the unmatched list, the row ends with the   *)
(* duplicate highlight (duplicate takes precedence), and no row ends with  *)
(* both highlights.                                                        *)
(***************************************************************************)
\* the sheet was written from records that have columns
SheetFilled == pc = "done" /\ Status = "completed" /\ fee_result # <<>>

ListedTwice == DuplicatePositions \cap UnmatchedPositions

OneHighlightPerRow == \A r \in DOMAIN fills : fills[r] \in {"red", "yellow"}

C20_DuplicateTakesPrecedence ==
    SheetFilled =>
        /\ \A p \in ListedTwice :
              RowOf(p) \in DOMAIN fills /\ fills[RowOf(p)] = "red"
        /\ OneHighlightPerRow

\* what the code does: the unmatched fill is applied last and stays
CodeUnmatchedTakesPrecedence ==
    SheetFilled =>
        /\ \A p \in UnmatchedPositions :
              RowOf(p) \in DOMAIN fills /\ fills[RowOf(p)] = "yellow"
        /\ \A p \in DuplicatePositions \ UnmatchedPositions :
              RowOf(p) \in DOMAIN fills /\ fills[RowOf(p)] = "red"
        /\ OneHighlightPerRow

(***************************************************************************)
(* Vocabulary of the partition properties.                                 *)
(***************************************************************************)
\* supplement_fee_info is past its call of get_fees_batch
FeesLeft == Matched /\ pc \in {"write", "done"} /\ fee_result # <<>>

\* get_fees_batch raised: nothing was computed
FeesRaised == FeesLeft /\ calculated_fees = <<>>

HasRequest(fee) == {"hours", "standard"} \subseteq fee.keys

\* no amount field, or an amount that is not-a-number
NoValidAmount(fee) == "amount" \notin fee.keys \/ IsNan(fee.amount)

RequestKey(fee) == CalKey(CalData(fee))

\* the calls whose batch holds the request of fee
CallsFor(fee) == {c \in Calls : RequestKey(fee) \in KeysOfCall(c)}

\* call c answered the request of fee with a number, in a list of the
\* batch's length
NumericAnswer(c, fee) ==
    /\ oracle_calls[c].response.kind = "list"
    /\ ~WrongLength(c)
    /\ IsNumber(ResultFor(c, RequestKey(fee)))

(***************************************************************************)
(* C21: a record with no amount field at all, or with an amount that is    *)
(* not-a-number, and with both the hours and the rate field needs a        *)
(* computation: get_fees_batch does not raise on it, its request is sent   *)
(* to the oracle, and the number the oracle answers becomes its amount.    *)
(***************************************************************************)
C21_NeedsComputation ==
    FeesLeft =>
        \A k \in OutputIdx :
            (NoValidAmount(InputOf(k)) /\ HasRequest(InputOf(k))) =>
                /\ ~FeesRaised
                /\ CallsFor(InputOf(k)) # {}
                /\ \A c \in CallsFor(InputOf(k)) :
                      NumericAnswer(c, InputOf(k)) =>
                          fee_result[k + 1].amount =
                              ResultFor(c, RequestKey(InputOf(k)))

\* what the code does: a record whose amount is not-a-number has its
\* request sent, unless some record of the run has no amount field
CodeNanAmountSent ==
    (FeesLeft /\ \A k \in OutputIdx : "amount" \in InputOf(k).keys) =>
        /\ ~FeesRaised
        /\ \A k \in OutputIdx :
              (NoValidAmount(InputOf(k)) /\ HasRequest(InputOf(k))) =>
                  CallsFor(InputOf(k)) # {}

(***************************************************************************)
(* C22: a record without a valid amount that lacks the hours field or the  *)
(* rate field is given a failure result at once: no request is built for   *)
(* it, it is in no oracle batch, and it does not shift the result          *)
(* positions of the records after it.                                      *)
(***************************************************************************)
\* the (one-based) place of output record k in temp_fees and in the result
\* of get_fees_batch
TempOf(k) == CHOOSE p \in 1..Len(indices_map) : indices_map[p] = k

\* every position kept for a request is the place of the record that made it
PositionsAligned ==
    \A a \in Askers :
        /\ positions[a] + 1 \in 1..Len(fee_result)
        /\ HasRequest(fee_result[indices_map[positions[a] + 1] + 1])
        /\ RequestKey(fee_result[indices_map[positions[a] + 1] + 1])
              = KeyOfAsker(a)

FailsAtOnce(k) ==
    /\ Len(calculated_fees) = Len(fee_result)
    /\ calculated_fees[TempOf(k)] = PyNaN
    /\ \A a \in Askers : positions[a] + 1 # TempOf(k)
    /\ \A c \in Calls :
          CalData(InputOf(k)) \notin Range(oracle_calls[c].batch)
    /\ PositionsAligned

C22_MissingFieldFails ==
    FeesLeft =>
        \A k \in OutputIdx :
            (~HadAmount(InputOf(k)) /\ ~HasRequest(InputOf(k))) =>
                FailsAtOnce(k)

\* what the code does: as claimed, in the runs in which every record has an
\* amount field
CodeMissingFieldFails ==
    (FeesLeft /\ \A k \in OutputIdx : "amount" \in InputOf(k).keys) =>
        \A k \in OutputIdx :
            (~HadAmount(InputOf(k)) /\ ~HasRequest(InputOf(k))) =>
                FailsAtOnce(k)

(***************************************************************************)
(* C23: a record's name has its whitespace removed before it is used as    *)
(* the lookup key: a record whose name differs from a profile's name only  *)
(* by whitespace is classified against that profile (matched or            *)
(* duplicate), not as unmatched.                                           *)
(***************************************************************************)
\* the profiles whose name is the record's name without its spaces
NormalizedProfiles(i) ==
    SelectSeq(directory,
              LAMBDA user : user.name = StripSpaces(data_dict_list[i].name))

\* input record i was classified against the profiles of its normalized
\* name: one output record for each
ClassifiedAgainst(i) ==
    /\ Cardinality(OutputsOf(i)) = Len(NormalizedProfiles(i))
    /\ {ContactOf(fee_result[k + 1]) : k \in OutputsOf(i)}
         = {ContactOf(user) : user \in Range(NormalizedProfiles(i))}

Named == {i \in InputIdx : ~LacksName(data_dict_list[i])}

C23_NameNormalized ==
    Matched =>
        /\ \A i \in Named :
              Len(NormalizedProfiles(i)) >= 1 => ClassifiedAgainst(i)
        /\ Len(no_match_list) =
              Cardinality({i \in Named : Len(NormalizedProfiles(i)) = 0})

\* what the code does: the query asks for the names as the sheet spells
\* them, so a name with spaces finds its profiles only when another record
\* of the sheet spells the name without them
SpelledInSheet(i) ==
    \E j \in Named : data_dict_list[j].name = StripSpaces(data_dict_list[i].name)

CodeNameNormalized ==
    Matched =>
        \A i \in Named :
            IF Len(NormalizedProfiles(i)) >= 1 /\ SpelledInSheet(i)
            THEN ClassifiedAgainst(i)
            ELSE EmittedBlank(i)

(***************************************************************************)
(* C24: an exception raised while one record is processed in               *)
(* supplement_fee_info skips that record only: the run continues, no       *)
(* output record and no list entry is emitted for the record, and the      *)
(* output records, duplicate groups and unmatched entries of all other     *)
(* records are what they would be had the record not been in the input.    *)
(***************************************************************************)
\* the matching loop has ended
LoopEnded == collection = "ok" /\ pc \in {"fees", "write"}

\* the records during whose processing an exception was raised
FailedIdx ==
    {i \in InputIdx :
        Raises(data_dict_list[i], FindUsers(directory, data_dict_list),
               record_faults[i])}

\* the input without the records of FailedIdx, in input order
RECURSIVE Without(_, _, _)
Without(fees, failed, i) ==
    IF i > Len(fees) THEN <<>>
    ELSE (IF i \in failed THEN <<>> ELSE <<fees[i]>>)
         \o Without(fees, failed, i + 1)

\* what the loop gives for the input without the failed records
WithoutFailed ==
    MatchLoop(NoMatch, Without(data_dict_list, FailedIdx, 1),
              FindUsers(directory, data_dict_list))

C24_FailingRecordSkipped ==
    LoopEnded =>
        /\ raised = ""
        /\ \A i \in FailedIdx : OutputsOf(i) = {}
        /\ fee_result = WithoutFailed.fee_result
        /\ repeat_list = WithoutFailed.repeat_list
        /\ no_match_list = WithoutFailed.no_match_list

\* what the code does: as claimed when the exception comes before the
\* record's first output record was appended
CodeFailingRecordSkipped ==
    (LoopEnded /\ \A i \in InputIdx : record_faults[i] <= 1) =>
        C24_FailingRecordSkipped

(***************************************************************************)
(* C25: the output sequence is determined by the input: the output records *)
(* stand in the order of the input records they were made from, and the    *)
(* records of a fan-out stand next to each other, in the order in which    *)
(* the directory returned the profiles.                                    *)
(***************************************************************************)
\* the profiles the directory returns for the name of input record i, in
\* the order it returns them
ReturnedProfiles(i) ==
    SelectSeq(directory,
              LAMBDA user : user.name = StripSpaces(data_dict_list[i].name))

\* the first output record of input record i
FirstOutput(i) ==
    CHOOSE k \in OutputsOf(i) : \A l \in OutputsOf(i) : k <= l

\* input record i was fanned out
FanOutOf(i) == Cardinality(OutputsOf(i)) > 1

C25_OutputOrder ==
    /\ \A j, k \in OutputIdx :
          j < k => fee_result[j + 1].row <= fee_result[k + 1].row
    /\ \A i \in InputIdx :
          FanOutOf(i) =>
              LET n == Cardinality(OutputsOf(i)) IN
              /\ n = Len(ReturnedProfiles(i))
              /\ OutputsOf(i) = FirstOutput(i)..(FirstOutput(i) + n - 1)
              /\ \A j \in 1..n :
                    ContactOf(fee_result[FirstOutput(i) + j])
                        = ContactOf(ReturnedProfiles(i)[j])
    /\ pc \in {"fees", "batch", "update"} /\ collection = "ok" =>
          fee_result = MatchLoop(NoMatch, valid_fee_info(data_dict_list),
                                 FindUsers(directory, data_dict_list)).fee_result

\* a fan-out over three profiles between the output records of two other
\* input records
C25_Witness ==
    /\ Matched
    /\ \E i \in InputIdx :
          /\ Cardinality(OutputsOf(i)) = 3
          /\ \E h \in InputIdx : h < i /\ OutputsOf(h) # {}
          /\ \E h \in InputIdx : h > i /\ OutputsOf(h) # {}

(***************************************************************************)
(* C26: get_fees_batch cuts the unique requests, taken in first-seen       *)
(* order, into consecutive batches of exactly batch_size requests, the     *)
(* last one possibly shorter, and calls the oracle exactly once for each   *)
(* batch: a unique request is in exactly one batch, a batch that failed is *)
(* not sent again, and the oracle is not called when no record needs a     *)
(* computation.  (batch_size is 30 in the source, openai_client.py:68.)    *)
(***************************************************************************)
\* the first record that asked with a key
FirstAsker(key) ==
    CHOOSE a \in Askers :
        /\ KeyOfAsker(a) = key
        /\ \A b \in Askers : KeyOfAsker(b) = key => a <= b

\* unique_calculations holds one request for each key asked with, that of
\* the key's first asker, in the order of the first askers
FirstSeenOrder ==
    LET uniq == unique_calculations IN
    /\ \A a \in Askers : \E u \in 1..Len(uniq) : CalKey(uniq[u]) = KeyOfAsker(a)
    /\ \A u \in 1..Len(uniq) :
          /\ \E a \in Askers : KeyOfAsker(a) = CalKey(uniq[u])
          /\ uniq[u] = to_calculate[FirstAsker(CalKey(uniq[u]))][2]
    /\ \A u, v \in 1..Len(uniq) :
          u < v => FirstAsker(CalKey(uniq[u])) < FirstAsker(CalKey(uniq[v]))

\* the requests sent so far, batch after batch
SentRequests == Flatten([c \in Calls |-> oracle_calls[c].batch])

\* the batch loop of get_fees_batch is over
BatchLoopOver == pc \in {"update", "write", "done"}

EntryOf(table, t) == IF t \in DOMAIN table THEN table[t] ELSE NoEntry

\* the step is one of the handler or worker of task t, or the clean-up
\* queued for t
StepOf(t) ==
    \/ handler'[t] # handler[t]
    \/ t \in cleanup /\ t \notin cleanup'

\* the step answers a poll of task t
PollOf(t) ==
    /\ responses' # responses
    /\ responses'.op = "progress"
    /\ responses'.task = t

C27_TaskIsolation ==
    [][\A t \in TaskIds :
          /\ EntryOf(tasks_progress', t) # EntryOf(tasks_progress, t) =>
                /\ StepOf(t)
                /\ \A u \in TaskIds \ {t} : ~StepOf(u)
          /\ (t \in DOMAIN tasks_progress) # (t \in DOMAIN tasks_progress') =>
                StepOf(t)
          /\ PollOf(t) =>
                /\ tasks_progress' = tasks_progress
                /\ IF t \in DOMAIN tasks_progress
                   THEN /\ responses'.code = 200
                        /\ responses'.task_info = tasks_progress[t]
                   ELSE responses'.code = 404]_vars

\* a poll of one task answered with that task's phase while the other task,
\* submitted through the other endpoint, stands in another phase
C27_Witness ==
    \E t, u \in TaskIds :
        /\ handler[t].kind = "async" /\ handler[u].kind = "sync"
        /\ t \in DOMAIN tasks_progress /\ u \in DOMAIN tasks_progress
        /\ tasks_progress[t].status = "processing"
        /\ tasks_progress[u].status = "writing"
        /\ responses.op = "progress" /\ responses.task = t
        /\ responses.code = 200
        /\ responses.task_info = tasks_progress[t]

(***************************************************************************)
(* C28: an entry is removed from tasks_progress only while its status is   *)
(* completed or error: no task in pending, reading, processing or writing  *)
(* is ever reclaimed, whichever endpoint it was submitted through.         *)
(***************************************************************************)
\* the step removes the entry of task t
Reclaimed(t) == t \in DOMAIN tasks_progress /\ t \notin DOMAIN tasks_progress'

C28_OnlyTerminalReclaimed ==
    [][\A t \in TaskIds :
          Reclaimed(t) => tasks_progress[t].status \in {"completed", "error"}]_vars

\* the entry of a completed task was removed while the entry of a task that
\* stopped in a phase is still there
C28_Witness ==
    \E t, u \in TaskIds :
        /\ handler[t] = [kind |-> "sync", pc |-> "returned"]
        /\ t \notin DOMAIN tasks_progress /\ t \notin cleanup
        /\ handler[u].pc = "raised"
        /\ u \in DOMAIN tasks_progress
        /\ tasks_progress[u].status \in {"reading", "processing", "writing"}

(***************************************************************************)
(* C29: whenever get_fees_batch returns, its result has exactly one entry  *)
(* for each input record, in input order: entry i is the record's own      *)
(* amount when the record has a valid one, the failure marker when its     *)
(* hours or rate is missing, and otherwise the result cached for the       *)
(* record's request key, for every mix of such records and every number of *)
(* batches.                                                                *)
(***************************************************************************)
\* the i-th record handed to get_fees_batch (temp_fees[i - 1]), by its
\* amount, hours and rate, which _full_fee leaves as they were read
TempRecord(i) == InputOf(indices_map[i])

\* what entry i of the result has to be
ExpectedEntry(i) ==
    IF HadAmount(TempRecord(i)) THEN ToFloat(TempRecord(i).amount)
    ELSE IF ~HasRequest(TempRecord(i)) THEN PyNaN
    ELSE CacheGet(unique_results, RequestKey(TempRecord(i)))

C29_ResultAligned ==
    AmountsWritten =>
        /\ Len(calculated_fees) = Len(fee_result)
        /\ Len(indices_map) = Len(fee_result)
        /\ \A i \in 1..Len(calculated_fees) :
              /\ indices_map[i] = i - 1
              /\ calculated_fees[i] = ExpectedEntry(i)
              /\ (~HadAmount(TempRecord(i)) /\ HasRequest(TempRecord(i))) =>
                    RequestKey(TempRecord(i)) \in DOMAIN unique_results

\* a result over a record with its own amount, then one whose request was
\* answered with a number, then one without hours
C29_Witness ==
    /\ AmountsWritten
    /\ Len(calculated_fees) = 3
    /\ HadAmount(TempRecord(1))
    /\ ~HadAmount(TempRecord(2)) /\ HasRequest(TempRecord(2))
    /\ IsNumber(calculated_fees[2])
    /\ ~HadAmount(TempRecord(3)) /\ ~HasRequest(TempRecord(3))
    /\ Len(oracle_calls) = 1

(***************************************************************************)
(* C30: an output record whose computed result is a failure (None or       *)
(* not-a-number), and every output record when the whole amount            *)
(* computation raises, keeps its amount field exactly as it was in the     *)
(* input record; an amount field is written only with a result that is no  *)
(* failure and was computed for that same record.                          *)
(***************************************************************************)
\* the amount field of output record k is that of its input record (a
\* number counts as kept when its value is, as in C6: line 145 stores the
\* float of an amount that was read as an int)
AmountKept(k) ==
    /\ \/ fee_result[k + 1].amount = InputOf(k).amount
       \/ /\ IsNumber(fee_result[k + 1].amount) /\ IsNumber(InputOf(k).amount)
          /\ fee_result[k + 1].amount[2] = InputOf(k).amount[2]
    /\ ("amount" \in fee_result[k + 1].keys) <=> ("amount" \in InputOf(k).keys)

\* line 144 raises on a result: it is not None and math.isnan rejects it
LoopRaised ==
    \E p \in 1..Len(calculated_fees) :
        calculated_fees[p] # PyNone /\ IsNanRaises(calculated_fees[p])

\* the try block of lines 138-148 was left through the handler of line 149
ComputationRaised == FeesRaised \/ (FeesLeft /\ LoopRaised)

\* output record k was given a result, and it is a failure
FailureResult(k) ==
    /\ calculated_fees # <<>>
    /\ IsFailure(calculated_fees[TempOf(k)])

\* the amount of output record k is a result computed for it that is no
\* failure
WrittenFromOwnResult(k) ==
    /\ calculated_fees # <<>>
    /\ ~IsFailure(calculated_fees[TempOf(k)])
    /\ IsNumber(calculated_fees[TempOf(k)])
    /\ fee_result[k + 1].amount = calculated_fees[TempOf(k)]

C30_FailureKeepsAmount ==
    FeesLeft =>
        \A k \in OutputIdx :
            /\ FailureResult(k) => AmountKept(k)
            /\ ComputationRaised => AmountKept(k)
            /\ ~AmountKept(k) => WrittenFromOwnResult(k)

\* what the code does: as claimed for the failure results, for the runs in
\* which get_fees_batch itself raises, and for what is written; a run whose
\* update loop raises keeps what the loop wrote before
CodeFailureKeepsAmount ==
    FeesLeft =>
        \A k \in OutputIdx :
            /\ FailureResult(k) => AmountKept(k)
            /\ FeesRaised => AmountKept(k)
            /\ ~AmountKept(k) => WrittenFromOwnResult(k)

\* both cases happen: a run that wrote a result next to a failure, and a
\* run in which get_fees_batch raised
CodeFailureKeepsAmountSeen ==
    /\ FeesLeft /\ ~FeesRaised
    /\ \E k, l \in OutputIdx :
          /\ FailureResult(k) /\ IsNan(calculated_fees[TempOf(k)])
          /\ ~AmountKept(l) /\ ~HadAmount(InputOf(l))

=============================================================================
